---------------------------- MODULE Spec2Model ----------------------------
(***************************************************************************)
(* Biomarker extraction and risk assessment engine                         *)
(* (server/biomarker_analyzer.py).                                         *)
(*                                                                         *)
(* Strings are sequences of one-character strings.  A float is held as an  *)
(* integer number of 1/Scale units; every numeral the model builds has at  *)
(* most two fractional digits, so the representation is exact.  Python     *)
(* values of varying type (a JSON name, a JSON value) are tagged records   *)
(* [t |-> <type>, ...].                                                    *)
(***************************************************************************)
EXTENDS Integers, Sequences, FiniteSets, TLC

VARIABLES
    pc,                \* position of the request inside the entry point
    file_path,         \* the suffix of the path given to analyze_report
    genai,             \* whether google.generativeai was importable
    environ,           \* os.environ: GOOGLE_API_KEY and GENAI_API_KEY
    collaborator,      \* how the external model collaborator behaves
    text,              \* text returned by the text-extraction collaborator
    llm,               \* what genai_extract_biomarkers returned (or raised)
    biomarkers,        \* analyze_report's local `biomarkers`
    risk_assessment,   \* what assess_biomarker_risk returned (or raised)
    result,            \* what analyze_report returned (or raised)
    calls,             \* how many times each component has been invoked
    reference          \* a second biomarker list and its assessment

vars == <<pc, file_path, genai, environ, collaborator, text, llm, biomarkers,
          risk_assessment, result, calls, reference>>

(***************************************************************************)
(* Bounds of the model.                                                    *)
(***************************************************************************)
MaxList == 4

MaxFrags == 3

MaxItems == 2

(***************************************************************************)
(* Python values.                                                          *)
(***************************************************************************)
None == [t |-> "none"]

Str(s) == [t |-> "str", s |-> s]

List(v) == [t |-> "list", v |-> v]

Num(v) == [t |-> "num", v |-> v]

\* a key a JSON object does not hold
Absent == [t |-> "absent"]

\* a JSON object of the response; a key it does not hold is Absent
Obj(name, biomarker, value, unit) ==
    [t |-> "dict", name |-> name, biomarker |-> biomarker, value |-> value,
     unit |-> unit]

\* bool(x)
Truthy(x) ==
    CASE x.t = "none" -> FALSE
      [] x.t = "absent" -> FALSE
      [] x.t = "str" -> x.s # <<>>
      [] x.t = "num" -> x.v # 0
      [] x.t = "list" -> x.v # <<>>
      [] x.t = "bool" -> x.v
      [] OTHER -> TRUE

\* item.get(key): None for a key the object does not hold
Get(v) == IF v = Absent THEN None ELSE v

\* float(x): x counted in 1/Scale units
Scale == 100

\* the characters that have a lower-case form, and that form
LowerCase ==
    [A |-> "a", B |-> "b", C |-> "c", D |-> "d", E |-> "e", F |-> "f",
     G |-> "g", H |-> "h", I |-> "i", J |-> "j", K |-> "k", L |-> "l",
     M |-> "m", N |-> "n", O |-> "o", P |-> "p", Q |-> "q", R |-> "r",
     S |-> "s", T |-> "t", U |-> "u", V |-> "v", W |-> "w", X |-> "x",
     Y |-> "y", Z |-> "z"]

\* str.lower(), one character
LowerChar(c) == IF c \in DOMAIN LowerCase THEN LowerCase[c] ELSE c

\* str.lower()
Lower(s) == [i \in 1..Len(s) |-> LowerChar(s[i])]

\* a.lower() == b.lower()
SameLower(a, b) ==
    /\ Len(a) = Len(b)
    /\ \A i \in 1..Len(a) : LowerChar(a[i]) = LowerChar(b[i])

(***************************************************************************)
(* The Biomarker Registry, in the dictionary's iteration order.  min and   *)
(* max are in 1/Scale units.  The third alias of Alpha-synuclein is the    *)
(* two characters the source file holds before "-synuclein".               *)
(***************************************************************************)
BIOMARKER_RANGES == <<
    [key |-> <<"T","S","H">>, min |-> 40, max |-> 400,
     names |-> << <<"T","S","H">>, <<"t","s","h">> >>],
    [key |-> <<"T","3">>, min |-> 230, max |-> 420,
     names |-> << <<"T","3">>, <<"t","3">>,
                  <<"t","r","i","i","o","d","o","t","h","y","r","o","n","i","n","e">> >>],
    [key |-> <<"T","4">>, min |-> 80, max |-> 180,
     names |-> << <<"T","4">>, <<"t","4">>,
                  <<"t","h","y","r","o","x","i","n","e">> >>],
    [key |-> <<"B","1","2">>, min |-> 20000, max |-> 90000,
     names |-> << <<"B","1","2">>, <<"b","1","2">>,
                  <<"v","i","t","a","m","i","n"," ","B","1","2">>,
                  <<"c","o","b","a","l","a","m","i","n">> >>],
    [key |-> <<"F","o","l","a","t","e">>, min |-> 200, max |-> 500,
     names |-> << <<"F","o","l","a","t","e">>, <<"f","o","l","a","t","e">>,
                  <<"f","o","l","i","c"," ","a","c","i","d">> >>],
    [key |-> <<"V","i","t","a","m","i","n"," ","D">>, min |-> 3000, max |-> 5000,
     names |-> << <<"V","i","t","a","m","i","n"," ","D">>,
                  <<"v","i","t","a","m","i","n"," ","d">>,
                  <<"2","5","-","O","H"," ","V","i","t","a","m","i","n"," ","D">>,
                  <<"c","a","l","c","i","t","r","i","o","l">> >>],
    [key |-> <<"C","e","r","u","l","o","p","l","a","s","m","i","n">>,
     min |-> 2000, max |-> 4000,
     names |-> << <<"C","e","r","u","l","o","p","l","a","s","m","i","n">>,
                  <<"c","e","r","u","l","o","p","l","a","s","m","i","n">>,
                  <<"s","e","r","u","m"," ","c","e","r","u","l","o","p","l","a","s","m","i","n">> >>],
    [key |-> <<"A","l","p","h","a","-","s","y","n","u","c","l","e","i","n">>,
     min |-> 120, max |-> 180,
     names |-> << <<"a","l","p","h","a","-","s","y","n","u","c","l","e","i","n">>,
                  <<"I^","+-","-","s","y","n","u","c","l","e","i","n">>,
                  <<"C","S","F"," ","a","l","p","h","a","-","s","y","n","u","c","l","e","i","n">> >>],
    [key |-> <<"P","h","o","s","p","h","o","-","t","a","u">>,
     min |-> 2000, max |-> 4000,
     names |-> << <<"p","h","o","s","p","h","o"," ","t","a","u">>,
                  <<"p","h","o","s","p","h","o","-","t","a","u">>,
                  <<"p","-","t","a","u">>,
                  <<"C","S","F"," ","p","h","o","s","p","h","o","-","t","a","u">> >>],
    [key |-> <<"N","F","L">>, min |-> 0, max |-> 100000,
     names |-> << <<"N","F","L">>,
                  <<"n","e","u","r","o","f","i","l","a","m","e","n","t"," ","l","i","g","h","t">>,
                  <<"C","S","F"," ","N","F","L">> >> ]
  >>

\* BIOMARKER_RANGES.keys()
RegistryKeys == {BIOMARKER_RANGES[i].key : i \in 1..Len(BIOMARKER_RANGES)}

\* BIOMARKER_RANGES[name]
RegistryInfo(key) ==
    BIOMARKER_RANGES[CHOOSE i \in 1..Len(BIOMARKER_RANGES) : BIOMARKER_RANGES[i].key = key]

\* `name in BIOMARKER_RANGES`: hashing a list or a dict raises TypeError
Hashable(name) == name.t \notin {"list", "dict"}

InRegistry(name) == name.t = "str" /\ name.s \in RegistryKeys

(***************************************************************************)
(* Risk Scorer: assess_biomarker_risk.                                     *)
(***************************************************************************)
\* Abnormal with the bounds themselves counted abnormal (<= and >=)
AbnormalInclusive(biomarker) ==
    IF InRegistry(biomarker.name)
    THEN LET info == RegistryInfo(biomarker.name.s)
         IN  IF biomarker.value <= info.min THEN 1
             ELSE IF biomarker.value >= info.max THEN 1
             ELSE 0
    ELSE 0

\* one pass of the loop body: 1 when the entry is counted abnormal, else 0
Abnormal(biomarker) ==
    IF InRegistry(biomarker.name)
    THEN LET info == RegistryInfo(biomarker.name.s)
         IN  IF biomarker.value < info.min THEN 1
             ELSE IF biomarker.value > info.max THEN 1
             ELSE 0
    ELSE 0

RECURSIVE AbnormalCount(_)
AbnormalCount(bs) ==
    IF bs = <<>> THEN 0
    ELSE AbnormalCount(SubSeq(bs, 1, Len(bs) - 1)) + Abnormal(bs[Len(bs)])

\* RiskOf with the scores of the two moderate rows exchanged
RiskOfExchanged(abnormal_count) ==
    IF abnormal_count = 0 THEN [risk |-> "low", score |-> 10]
    ELSE IF abnormal_count = 1 THEN [risk |-> "moderate", score |-> 55]
    ELSE IF abnormal_count <= 3 THEN [risk |-> "moderate", score |-> 45]
    ELSE [risk |-> "high", score |-> 75]

\* the table at the end of the function
RiskOf(abnormal_count) ==
    IF abnormal_count = 0 THEN [risk |-> "low", score |-> 10]
    ELSE IF abnormal_count = 1 THEN [risk |-> "moderate", score |-> 45]
    ELSE IF abnormal_count <= 3 THEN [risk |-> "moderate", score |-> 55]
    ELSE [risk |-> "high", score |-> 75]

\* the call's outcome: a value ("ok") or an exception leaving the function
assess_biomarker_risk(bs) ==
    IF bs = <<>> THEN [k |-> "ok", risk |-> "low", score |-> 0]
    ELSE IF \E i \in 1..Len(bs) : ~Hashable(bs[i].name)
         THEN [k |-> "raise", exc |-> "TypeError"]
         ELSE LET r == RiskOf(AbnormalCount(bs))
              IN  [k |-> "ok", risk |-> r.risk, score |-> r.score]

(***************************************************************************)
(* Pattern Extractor: the regular expressions of extract_biomarkers_from_  *)
(* text, evaluated as re.search evaluates them (leftmost start, then the   *)
(* first alternative in backtracking order).                               *)
(***************************************************************************)
\* widths of the two windows, [\s\S]{0,60}? and [\s\S]{0,20}?
Window1 == 60

Window2 == 20

\* the character at index i, "" past either end
At(t, i) == IF i \in 1..Len(t) THEN t[i] ELSE ""

\* [0-9]
IsDigit(c) == c \in {"0", "1", "2", "3", "4", "5", "6", "7", "8", "9"}

\* \s
IsSpace(c) == c \in {" ", "\t", "\n"}

\* [<>]
IsSign(c) == c \in {"<", ">"}

\* [\.,]
IsPoint(c) == c \in {".", ","}

\* re.escape(name_variant) under re.IGNORECASE, anchored at index i
AliasAt(t, i, alias) ==
    /\ i >= 1
    /\ i + Len(alias) - 1 <= Len(t)
    /\ \A k \in 1..Len(alias) : LowerChar(t[i + k - 1]) = LowerChar(alias[k])

\* \s* from index i: the index of the first character that is not a space
RECURSIVE SkipSpace(_, _)
SkipSpace(t, i) == IF IsSpace(At(t, i)) THEN SkipSpace(t, i + 1) ELSE i

\* the length of the run of digits that starts at index i
RECURSIVE DigitRun(_, _)
DigitRun(t, i) == IF IsDigit(At(t, i)) THEN 1 + DigitRun(t, i + 1) ELSE 0

\* [<>]?\s* from index p: the index where [0-9]{1,3} has to start
DigitsFrom(t, p) == SkipSpace(t, IF IsSign(At(t, p)) THEN p + 1 ELSE p)

\* whether number_rx matches at index p
NumberAt(t, p) == IsDigit(At(t, DigitsFrom(t, p)))

\* [0-9]{1,3}: the greedy count of integer digits
IntDigits(t, p) ==
    LET n == DigitRun(t, DigitsFrom(t, p)) IN IF n > 3 THEN 3 ELSE n

\* (?:[\.,][0-9]+)?: the greedy count of fraction digits after the integer digits
FracDigits(t, p) ==
    LET q == DigitsFrom(t, p) + IntDigits(t, p)
    IN  IF IsPoint(At(t, q)) THEN DigitRun(t, q + 1) ELSE 0

\* every index at which a match of number_rx begun at p can end (exclusive):
\* fewer integer digits, or fewer fraction digits, or no fraction
NumberEnds(t, p) ==
    LET r == DigitsFrom(t, p)
        d == IntDigits(t, p)
        f == FracDigits(t, p)
    IN  {r + k : k \in 1..d} \cup {r + d + 1 + k : k \in 1..f}

\* the least element of a non-empty set of integers
Least(S) == CHOOSE x \in S : \A y \in S : x <= y

\* a window's width, cut to what is left of the text (nothing matches
\* past the end of the text)
Min(a, b) == IF a < b THEN a ELSE b

\* where number_rx matches in the text: for each index, the ends of the
\* matches begun there (none where it does not match)
NumberMatches(t) ==
    [p \in 1..Len(t) |-> IF NumberAt(t, p) THEN NumberEnds(t, p) ELSE {}]

\* where the alias occurs in the text
Occurrences(t, alias) == {i \in 1..(Len(t) - Len(alias) + 1) : AliasAt(t, i, alias)}

\* the greatest element of a non-empty set of integers
Greatest(S) == CHOOSE x \in S : \A y \in S : y <= x

\* pattern1.search(text): group 1, or None.  nm is NumberMatches(t), occ is
\* Occurrences(t, alias).  The leftmost occurrence with a number in its
\* window, the nearest such number, read greedily.
Pattern1Search(t, nm, occ, alias) ==
    LET n == Len(alias)
        Gaps(i) == {g \in 0..Min(Window1, Len(t) - (i + n)) : nm[i + n + g] # {}}
        starts == {i \in occ : Gaps(i) # {}}
    IN  IF starts = {} THEN None
        ELSE LET p == Least(starts) + n + Least(Gaps(Least(starts)))
             IN  Str(SubSeq(t, p, Greatest(nm[p]) - 1))

\* pattern2.search(text): group 1, or None.  The leftmost number one of
\* whose ends has an occurrence in its window, with the first such end in
\* backtracking order (the longest).
Pattern2Search(t, nm, occ, alias) ==
    LET Ends(p) == {e \in nm[p] : \E g \in 0..Window2 : e + g \in occ}
        starts == {p \in 1..Len(t) : Ends(p) # {}}
    IN  IF starts = {} THEN None
        ELSE Str(SubSeq(t, Least(starts), Greatest(Ends(Least(starts))) - 1))

\* SearchBoth with the number-then-name pattern searched first
SearchBothNumberFirst(t, nm, occ, alias) ==
    IF occ = {} THEN None
    ELSE IF Pattern2Search(t, nm, occ, alias) # None
    THEN Pattern2Search(t, nm, occ, alias)
    ELSE Pattern1Search(t, nm, occ, alias)

\* the two searches of one alias: pattern 2 only when pattern 1 found nothing
SearchBoth(t, nm, occ, alias) ==
    IF occ = {} THEN None
    ELSE IF Pattern1Search(t, nm, occ, alias) # None
    THEN Pattern1Search(t, nm, occ, alias)
    ELSE Pattern2Search(t, nm, occ, alias)

RawNumeral(t, nm, alias) == SearchBoth(t, nm, Occurrences(t, alias), alias)

\* raw.replace(' ', '').replace('\t', '')
RECURSIVE RemoveBlanks(_)
RemoveBlanks(s) ==
    IF s = <<>> THEN <<>>
    ELSE IF Head(s) \in {" ", "\t"} THEN RemoveBlanks(Tail(s))
    ELSE <<Head(s)>> \o RemoveBlanks(Tail(s))

\* CommaToDot that leaves the comma in place
CommaKept(s) == s

\* s.replace(',', '.')
CommaToDot(s) == [i \in 1..Len(s) |-> IF s[i] = "," THEN "." ELSE s[i]]

\* the cleaning of the captured numeral, up to the call of float()
CleanNumeral(raw) ==
    LET raw_clean == CommaToDot(RemoveBlanks(raw))
    IN  IF IsSign(At(raw_clean, 1)) THEN Tail(raw_clean) ELSE raw_clean

DigitVal(c) ==
    CASE c = "0" -> 0 [] c = "1" -> 1 [] c = "2" -> 2 [] c = "3" -> 3
      [] c = "4" -> 4 [] c = "5" -> 5 [] c = "6" -> 6 [] c = "7" -> 7
      [] c = "8" -> 8 [] c = "9" -> 9

\* the value of a string of digits
RECURSIVE DigitsVal(_)
DigitsVal(s) ==
    IF s = <<>> THEN 0
    ELSE 10 * DigitsVal(SubSeq(s, 1, Len(s) - 1)) + DigitVal(s[Len(s)])

\* str.strip()
RECURSIVE Strip(_)
Strip(s) ==
    IF s = <<>> THEN s
    ELSE IF IsSpace(Head(s)) THEN Strip(Tail(s))
    ELSE IF IsSpace(s[Len(s)]) THEN Strip(SubSeq(s, 1, Len(s) - 1))
    ELSE s

\* float(s) of a string: digits, then optionally a point and digits, with
\* white space allowed around; anything else raises ValueError (ok = FALSE).
\* The value is in 1/Scale units (fraction digits past the second are cut).
ParseFloat(s) ==
    LET u == Strip(s)
        d == DigitRun(u, 1)
        f == IF At(u, d + 1) = "." THEN DigitRun(u, d + 2) ELSE 0
        frac == SubSeq(u, d + 2, d + 1 + f)
        wellFormed == /\ d + f >= 1
                      /\ Len(u) = (IF At(u, d + 1) = "." THEN d + 1 + f ELSE d)
    IN  IF ~wellFormed THEN [ok |-> FALSE, v |-> 0]
        ELSE [ok |-> TRUE,
              v  |-> DigitsVal(SubSeq(u, 1, d)) * Scale
                     + (IF f = 0 THEN 0
                        ELSE IF f = 1 THEN DigitVal(frac[1]) * (Scale \div 10)
                        ELSE DigitsVal(SubSeq(frac, 1, 2)))]

\* the loop over info["names"], from alias j on: the value recorded for the
\* definition, or None when no alias yields a numeral that parses
RECURSIVE ScanAliases(_, _, _, _)
ScanAliases(t, nm, names, j) ==
    IF j > Len(names) THEN None
    ELSE LET raw == RawNumeral(t, nm, names[j])
         IN  IF raw = None THEN ScanAliases(t, nm, names, j + 1)
             ELSE LET value == ParseFloat(CleanNumeral(raw.s))
                  IN  IF value.ok THEN Num(value.v)
                      ELSE ScanAliases(t, nm, names, j + 1)

\* the values of all aliases that yield one, from alias j on
RECURSIVE EveryAliasValue(_, _, _, _)
EveryAliasValue(t, nm, names, j) ==
    IF j > Len(names) THEN <<>>
    ELSE LET raw == RawNumeral(t, nm, names[j])
         IN  (IF raw = None THEN <<>>
              ELSE IF ParseFloat(CleanNumeral(raw.s)).ok
              THEN <<ParseFloat(CleanNumeral(raw.s)).v>>
              ELSE <<>>)
             \o EveryAliasValue(t, nm, names, j + 1)

\* ScanRegistry without the `break`: one entry per alias that yields a value
RECURSIVE ScanRegistryNoBreak(_, _, _)
ScanRegistryNoBreak(t, nm, i) ==
    IF i > Len(BIOMARKER_RANGES) THEN <<>>
    ELSE LET info == BIOMARKER_RANGES[i]
             vs == EveryAliasValue(t, nm, info.names, 1)
         IN  [k \in 1..Len(vs) |-> [name |-> Str(info.key), value |-> vs[k]]]
             \o ScanRegistryNoBreak(t, nm, i + 1)

\* the loop over BIOMARKER_RANGES.items(), from definition i on
RECURSIVE ScanRegistry(_, _, _)
ScanRegistry(t, nm, i) ==
    IF i > Len(BIOMARKER_RANGES) THEN <<>>
    ELSE LET info == BIOMARKER_RANGES[i]
             v == ScanAliases(t, nm, info.names, 1)
         IN  (IF v = None THEN <<>>
              ELSE << [name |-> Str(info.key), value |-> v.v] >>)
             \o ScanRegistry(t, nm, i + 1)

\* txt is None or a str
extract_biomarkers_from_text(txt) ==
    IF txt = None \/ txt.s = <<>> THEN <<>>
    ELSE ScanRegistry(txt.s, NumberMatches(txt.s), 1)

(***************************************************************************)
(* Inputs of the two pure functions.                                       *)
(***************************************************************************)
\* all sequences of at most n elements of S
RECURSIVE SeqsUpTo(_, _)
SeqsUpTo(S, n) ==
    IF n = 0 THEN {<<>>}
    ELSE LET shorter == SeqsUpTo(S, n - 1)
         IN  shorter \cup {Append(q, x) : q \in shorter, x \in S}

\* the concatenation of a sequence of strings
RECURSIVE Concat(_)
Concat(ss) == IF ss = <<>> THEN <<>> ELSE Head(ss) \o Concat(Tail(ss))

\* pieces of report text; a text is up to MaxFrags of them, one after another
Fragments == {
    <<"T","3">>, <<"t","3">>, <<":"," ">>, <<"3",",","1">>,
    <<"N","F","L">>, <<" ","<","5","0">>,
    <<"T","S","H">>, <<" ",".",".","."," ">>,
    <<"2",".","5"," ","m","g","/","d","L">> }

ReportTexts == {Str(Concat(fs)) : fs \in SeqsUpTo(Fragments, MaxFrags)}

\* entries a biomarker list is drawn from: values below, at and above the
\* bounds of two definitions, a name that differs from a key only in case,
\* and an entry with no name
EntryPool == {
    [name |-> Str(<<"T","S","H">>), value |-> 39],
    [name |-> Str(<<"T","S","H">>), value |-> 40],
    [name |-> Str(<<"B","1","2">>), value |-> 90000],
    [name |-> Str(<<"B","1","2">>), value |-> 90001],
    [name |-> Str(<<"t","s","h">>), value |-> 1],
    [name |-> None, value |-> 5] }

BiomarkerLists == SeqsUpTo(EntryPool, MaxList)

\* k abnormal entries
ReferenceList(k) == [i \in 1..k |-> [name |-> Str(<<"T","S","H">>), value |-> 39]]

NoCalls == [extract_text_from_pdf |-> 0, extract_text_from_image |-> 0,
            parse_csv |-> 0, genai |-> 0, configure |-> 0, chat |-> 0,
            generate_text |-> 0, pattern |-> 0, risk |-> 0]

NoReference == [biomarkers |-> <<>>, risk_assessment |-> None]

(***************************************************************************)
(* SpecPattern: extract_biomarkers_from_text called on a text.             *)
(***************************************************************************)
InitPattern ==
    /\ pc = "pattern"
    /\ text \in {None} \cup ReportTexts
    /\ biomarkers = None
    /\ file_path = <<>> /\ genai = FALSE
    /\ environ = [GOOGLE_API_KEY |-> None, GENAI_API_KEY |-> None]
    /\ collaborator = None /\ llm = None /\ risk_assessment = None
    /\ result = None /\ calls = NoCalls /\ reference = NoReference

CallPatternExtractor ==
    /\ pc = "pattern"
    /\ biomarkers' = List(extract_biomarkers_from_text(text))
    /\ calls' = [calls EXCEPT !.pattern = @ + 1]
    /\ pc' = "returned"
    /\ UNCHANGED <<file_path, genai, environ, collaborator, text, llm,
                   risk_assessment, result, reference>>

NextPattern == CallPatternExtractor

SpecPattern == InitPattern /\ [][NextPattern]_vars

(***************************************************************************)
(* SpecWindow: extract_biomarkers_from_text called on texts that hold an   *)
(* alias of T3 with a number before it and a number after it, at           *)
(* distances at and around the widths of the two windows.                  *)
(***************************************************************************)
\* n times the character c
Fill(c, n) == [i \in 1..n |-> c]

\* distances between number and alias: none, and the two widths and one more
WindowGaps == {0, Window2, Window2 + 1, Window1, Window1 + 1}

\* [number] filler alias filler [number] [a later alias with its number]
WindowTexts ==
    {Str(before \o Fill(f, a) \o alias \o Fill(f, b) \o after \o later) :
        before \in {<<>>, <<"7">>},
        f \in {"x", " "},
        a \in WindowGaps,
        alias \in {<<"T","3">>, <<"t","r","i","i","o","d","o","t","h","y","r","o","n","i","n","e">>},
        b \in WindowGaps,
        after \in {<<>>, <<"5">>, <<"<","5">>},
        later \in {<<>>, <<"x","t","r","i","i","o","d","o","t","h","y","r","o","n","i","n","e"," ","4">>}}

InitWindow ==
    /\ pc = "pattern"
    /\ text \in WindowTexts
    /\ biomarkers = None
    /\ file_path = <<>> /\ genai = FALSE
    /\ environ = [GOOGLE_API_KEY |-> None, GENAI_API_KEY |-> None]
    /\ collaborator = None /\ llm = None /\ risk_assessment = None
    /\ result = None /\ calls = NoCalls /\ reference = NoReference

SpecWindow == InitWindow /\ [][NextPattern]_vars

(***************************************************************************)
(* SpecRisk: assess_biomarker_risk called on a biomarker list, and on a    *)
(* reference list with a chosen number of abnormal entries.                *)
(***************************************************************************)
InitRisk ==
    /\ pc = "risk"
    /\ biomarkers \in {List(bs) : bs \in BiomarkerLists}
    /\ reference \in {[biomarkers |-> ReferenceList(k), risk_assessment |-> None] :
                        k \in 0..MaxList}
    /\ risk_assessment = None
    /\ file_path = <<>> /\ genai = FALSE
    /\ environ = [GOOGLE_API_KEY |-> None, GENAI_API_KEY |-> None]
    /\ collaborator = None /\ llm = None /\ text = None
    /\ result = None /\ calls = NoCalls

CallRiskScorer ==
    /\ pc = "risk"
    /\ risk_assessment' = assess_biomarker_risk(biomarkers.v)
    /\ reference' = [reference EXCEPT
                       !.risk_assessment = assess_biomarker_risk(reference.biomarkers)]
    /\ calls' = [calls EXCEPT !.risk = @ + 2]
    /\ pc' = "returned"
    /\ UNCHANGED <<file_path, genai, environ, collaborator, text, llm,
                   biomarkers, result>>

NextRisk == CallRiskScorer

SpecRisk == InitRisk /\ [][NextRisk]_vars

(***************************************************************************)
(* LLM Extractor: genai_extract_biomarkers.                                *)
(*                                                                         *)
(* The collaborator's behaviour is a record                                *)
(*   configure     : "ok" or "raise"                                       *)
(*   chat          : Missing (the client has no chat interface), Raises    *)
(*                   (the call, or the reading of its response, raises),   *)
(*                   or the content read from genai.chat.create            *)
(*   generate_text : Raises, or the content read from generate_text        *)
(* A content is None (no text in the response) or                          *)
(*   [t |-> "content", match, whole]                                       *)
(* where match is what the bracket regular expression finds, read by       *)
(* json.loads (NoMatch, BadJson, or the list it parses to), and whole is   *)
(* what json.loads makes of the entire content (BadJson or a value).       *)
(***************************************************************************)
NoMatch == [t |-> "nomatch"]

BadJson == [t |-> "badjson"]

Missing == [t |-> "missing"]

Raises == [t |-> "raise"]

Content(match, whole) == [t |-> "content", match |-> match, whole |-> whole]

Raise(exc) == [k |-> "raise", exc |-> exc]

\* GenaiAvailable with a key tested by `is not None`: an empty key counts
GenaiAvailableIsNotNone(mod, env) ==
    /\ mod
    /\ \/ env.GOOGLE_API_KEY # None
       \/ env.GENAI_API_KEY # None

\* lines 156-161: the availability test
GenaiAvailable(mod, env) ==
    /\ mod
    /\ \/ Truthy(env.GOOGLE_API_KEY)
       \/ Truthy(env.GENAI_API_KEY)

\* lines 181-188: which interfaces are invoked and what content comes back
CallModel(collab) ==
    LET chat == IF collab.chat = Missing THEN 0 ELSE 1
    IN  IF collab.chat \notin {Missing, Raises}
        THEN [k |-> "ok", content |-> collab.chat, chat |-> chat, generate_text |-> 0]
        ELSE IF collab.generate_text # Raises
        THEN [k |-> "ok", content |-> collab.generate_text, chat |-> chat,
              generate_text |-> 1]
        ELSE [k |-> "raise", content |-> None, chat |-> chat, generate_text |-> 1]

\* ParseContent that goes on to the entire content when the substring found
\* is not valid JSON
ParseContentBothAttempts(content) ==
    IF content = None THEN [k |-> "raise", loads |-> <<>>]
    ELSE IF content.match \notin {NoMatch, BadJson}
    THEN [k |-> "ok", parsed |-> content.match, loads |-> <<"match">>]
    ELSE LET tried == IF content.match = NoMatch THEN <<"whole">>
                      ELSE <<"match", "whole">>
         IN  IF content.whole = BadJson
             THEN [k |-> "null", loads |-> tried]
             ELSE [k |-> "ok", parsed |-> content.whole, loads |-> tried]

\* lines 190-202: the parsed value, "null" for the two `return None`, or the
\* TypeError of re.search on a content that is not a string
ParseContent(content) ==
    IF content = None THEN [k |-> "raise", loads |-> <<>>]
    ELSE IF content.match = NoMatch
    THEN IF content.whole = BadJson
         THEN [k |-> "null", loads |-> <<"whole">>]
         ELSE [k |-> "ok", parsed |-> content.whole, loads |-> <<"whole">>]
    ELSE IF content.match = BadJson
         THEN [k |-> "null", loads |-> <<"match">>]
         ELSE [k |-> "ok", parsed |-> content.match, loads |-> <<"match">>]

\* lines 209-215: float(val), with a str cleaned first; ok = FALSE is the
\* exception the inner handler turns into `continue`
CoerceValue(val) ==
    CASE val.t = "num" -> [ok |-> TRUE, v |-> val.v]
      [] val.t = "bool" -> [ok |-> TRUE, v |-> IF val.v THEN Scale ELSE 0]
      [] val.t = "str" -> ParseFloat(Strip(CommaToDot(val.s)))
      [] OTHER -> [ok |-> FALSE, v |-> 0]

\* NormalizeName comparing the name as it is, without .lower()
NormalizeNameExact(s) ==
    LET hits == {i \in 1..Len(BIOMARKER_RANGES) :
                    \/ \E j \in 1..Len(BIOMARKER_RANGES[i].names) :
                          s = BIOMARKER_RANGES[i].names[j]
                    \/ s = BIOMARKER_RANGES[i].key}
    IN  IF hits = {} THEN None ELSE Str(BIOMARKER_RANGES[Least(hits)].key)

\* lines 217-221: the first key, in Registry order, whose aliases or key
\* hold the name in lower case; None when there is none
NormalizeName(s) ==
    LET hits == {i \in 1..Len(BIOMARKER_RANGES) :
                    \/ \E j \in 1..Len(BIOMARKER_RANGES[i].names) :
                          SameLower(s, BIOMARKER_RANGES[i].names[j])
                    \/ SameLower(s, BIOMARKER_RANGES[i].key)}
    IN  IF hits = {} THEN None ELSE Str(BIOMARKER_RANGES[Least(hits)].key)

\* lines 205-222, one item: "skip" (continue), "raise", or the entry appended
\* `key or name`
KeyOrName(key, name) == IF key # None THEN key ELSE name

\* lines 209-222 on the three values read from the item
ConvertFields(name, val, unit) ==
    IF ~val.ok THEN [k |-> "skip"]
    ELSE IF ~Truthy(name)
    THEN [k |-> "entry", entry |-> [name |-> name, value |-> val.v, unit |-> unit]]
    ELSE IF name.t # "str" THEN [k |-> "raise"]
    ELSE [k |-> "entry",
          entry |-> [name |-> KeyOrName(NormalizeName(name.s), name),
                     value |-> val.v, unit |-> unit]]

ConvertItem(item) ==
    IF item.t # "dict" THEN [k |-> "raise"]
    ELSE ConvertFields(IF Truthy(Get(item.name)) THEN Get(item.name)
                       ELSE Get(item.biomarker),
                       CoerceValue(Get(item.value)),
                       Get(item.unit))

\* an outcome of the extractor or of a part of it: k is "list", "null"
\* (None) or "raise"; loads and the counters say what has been invoked
Outcome(k, v) ==
    [k |-> k, v |-> v, loads |-> <<>>, configure |-> 0, chat |-> 0,
     generate_text |-> 0]

\* the loop's outcome after one more item: results so far, then the item
AfterItem(sofar, converted) ==
    IF sofar.k = "raise" THEN sofar
    ELSE IF converted.k = "raise" THEN Outcome("raise", <<>>)
    ELSE IF converted.k = "skip" THEN sofar
    ELSE Outcome("list", Append(sofar.v, converted.entry))

\* the loop of lines 204-222 over the first n items
RECURSIVE ConvertItems(_, _)
ConvertItems(items, n) ==
    IF n = 0 THEN Outcome("list", <<>>)
    ELSE AfterItem(ConvertItems(items, n - 1), ConvertItem(items[n]))

\* the keys a JSON object holds, as iterating over it gives them
KeysOf(obj) ==
    (IF obj.name = Absent THEN <<>> ELSE <<Str(<<"n","a","m","e">>)>>)
    \o (IF obj.biomarker = Absent THEN <<>>
        ELSE <<Str(<<"b","i","o","m","a","r","k","e","r">>)>>)
    \o (IF obj.value = Absent THEN <<>> ELSE <<Str(<<"v","a","l","u","e">>)>>)
    \o (IF obj.unit = Absent THEN <<>> ELSE <<Str(<<"u","n","i","t">>)>>)

\* `for item in parsed`: a list gives its items, a dict its keys (strings),
\* a str its characters; any other value is not iterable
IterateParsed(parsed) ==
    CASE parsed.t = "list" -> ConvertItems(parsed.v, Len(parsed.v))
      [] parsed.t = "dict" -> ConvertItems(KeysOf(parsed), Len(KeysOf(parsed)))
      [] parsed.t = "str" ->
           ConvertItems([i \in 1..Len(parsed.s) |-> Str(<<parsed.s[i]>>)], Len(parsed.s))
      [] OTHER -> Outcome("raise", <<>>)

\* lines 204-223 on what ParseContent gave
ConvertParsed(p) ==
    IF p.k # "ok" THEN [Outcome(p.k, <<>>) EXCEPT !.loads = p.loads]
    ELSE [IterateParsed(p.parsed) EXCEPT !.loads = p.loads]

\* lines 190-223 on what CallModel gave
ReadResponse(call) ==
    IF call.k = "raise"
    THEN [Outcome("raise", <<>>) EXCEPT
            !.configure = 1, !.chat = call.chat,
            !.generate_text = call.generate_text]
    ELSE [ConvertParsed(ParseContent(call.content)) EXCEPT
            !.configure = 1, !.chat = call.chat,
            !.generate_text = call.generate_text]

\* lines 163-223, the body of the outer try: what it returns, or that an
\* exception leaves it
GenaiTry(collab, txt) == ReadResponse(CallModel(collab))

\* GenaiExcept without the handler: the exception goes on to the caller
GenaiExceptNone(outcome) == outcome

\* lines 224-226: the outer handler turns every exception into `return None`
GenaiExcept(outcome) ==
    IF outcome.k = "raise" THEN [outcome EXCEPT !.k = "null"] ELSE outcome

\* the call's outcome: k is "null" (None), "list" or "raise"
genai_extract_biomarkers(mod, env, collab, txt) ==
    IF ~GenaiAvailable(mod, env)
    THEN Outcome("null", <<>>)
    ELSE GenaiExcept(GenaiTry(collab, txt))

(***************************************************************************)
(* Inputs of a request.                                                    *)
(***************************************************************************)
\* Path(file_path).suffix of the paths tried
Suffixes == {
    <<".","p","d","f">>, <<".","P","D","F">>, <<".","j","p","g">>,
    <<".","j","p","e","g">>, <<".","p","n","g">>, <<".","c","s","v">>,
    <<".","t","x","t">>, <<".","T","X","T">>, <<>> }

\* what an environment variable holds: unset, empty, or a key
KeyValues == {None, Str(<<>>), Str(<<"k">>)}

\* what a text-extraction collaborator returns
TextOutcomes == {None, Str(<<>>), Str(<<"T","3",":"," ","3",",","1">>)}

\* items of a JSON array in the response
ItemTSH == Obj(Str(<<"T","S","H">>), Absent, Num(39), Absent)

ItemPool == {
    ItemTSH,
    Obj(Absent, Str(<<"T","h","y","r","o","x","i","n","e">>), Str(<<"0",",","5">>),
        Str(<<"n","g","/","d","L">>)),
    Obj(Str(<<"Z","i","n","c">>), Absent, Num(100), Absent),
    Obj(Str(<<"T","3">>), Absent, Str(<<"h","i","g","h">>), Absent),
    Obj(Num(5), Absent, Num(100), Absent),
    Obj(Absent, List(<<>>), Num(100), Absent),
    Obj(Absent, Absent, Num(700), Absent),
    Num(3) }

\* the bracket expression \[\s*\{[\s\S]*\}\s*\] matches the whole of a JSON
\* array exactly when its first and last items are objects
ArrayContent(items) ==
    IF items # <<>> /\ Head(items).t = "dict" /\ items[Len(items)].t = "dict"
    THEN Content(List(items), List(items))
    ELSE Content(NoMatch, List(items))

Contents ==
    {ArrayContent(items) : items \in SeqsUpTo(ItemPool, MaxItems)}
    \cup {Content(NoMatch, BadJson),                  \* prose, no JSON
          Content(NoMatch, Obj(Absent, Absent, Absent, Absent)),   \* {}
          Content(NoMatch, ItemTSH),                  \* one object, no array
          Content(NoMatch, Num(3)),                   \* a number
          Content(NoMatch, Str(<<>>)),                \* ""
          Content(NoMatch, None),                     \* null
          Content(List(<<ItemTSH>>), BadJson),        \* an array inside prose
          Content(BadJson, BadJson),                  \* brackets, not JSON
          Content(BadJson, List(<<List(<<ItemTSH>>), List(<<ItemTSH>>)>>)),
                                                      \* an array of arrays
          None}                                       \* no text at all

FewContents == {Content(NoMatch, BadJson), ArrayContent(<<ItemTSH>>), None}

Behaviour(configure, chat, generate_text) ==
    [configure |-> configure, chat |-> chat, generate_text |-> generate_text]

Behaviours ==
    {Behaviour("ok", Missing, g) : g \in Contents \cup {Raises}}
    \cup {Behaviour(c, ch, g) : c \in {"ok", "raise"},
                                ch \in {Missing, Raises} \cup FewContents,
                                g \in {Raises} \cup FewContents}

(***************************************************************************)
(* Report Analyzer: analyze_report, one request.                           *)
(***************************************************************************)
Supported == {<<".","p","d","f">>, <<".","j","p","g">>, <<".","j","p","e","g">>,
              <<".","p","n","g">>, <<".","c","s","v">>}

\* FileExt without .lower()
FileExtAsIs(path) == path

\* Path(file_path).suffix.lower()
FileExt(path) == Lower(path)

\* the collaborator the if/elif chain of lines 269-274 selects, "" for none
CollaboratorFor(file_ext) ==
    IF file_ext = <<".","p","d","f">> THEN "extract_text_from_pdf"
    ELSE IF file_ext \in {<<".","j","p","g">>, <<".","j","p","e","g">>,
                          <<".","p","n","g">>}
    THEN "extract_text_from_image"
    ELSE IF file_ext = <<".","c","s","v">> THEN "parse_csv"
    ELSE ""

Error(msg, arg) == [k |-> "error", error |-> msg, arg |-> arg]

Init ==
    /\ pc = "start"
    /\ file_path \in Suffixes
    /\ genai \in BOOLEAN
    /\ environ \in [GOOGLE_API_KEY : KeyValues, GENAI_API_KEY : KeyValues]
    /\ collaborator = None /\ text = None /\ llm = None /\ biomarkers = None
    /\ risk_assessment = None /\ result = None
    /\ calls = NoCalls /\ reference = NoReference

\* lines 266-279: dispatch on the extension, text extraction, the two
\* terminal errors
ExtractText ==
    /\ pc = "start"
    /\ LET file_ext == FileExt(file_path)
           who == CollaboratorFor(file_ext)
       IN  IF who = ""
           THEN /\ result' = Error("Unsupported file type: ", file_ext)
                /\ pc' = "done"
                /\ UNCHANGED <<text, calls>>
           ELSE \E t \in TextOutcomes :
                /\ text' = t
                /\ calls' = [calls EXCEPT ![who] = @ + 1]
                /\ IF t = None
                   THEN /\ result' = Error("Failed to extract text from file", <<>>)
                        /\ pc' = "done"
                   ELSE /\ result' = result
                        /\ pc' = "genai"
    /\ UNCHANGED <<file_path, genai, environ, collaborator, llm, biomarkers,
                   risk_assessment, reference>>

\* lines 282-286: the LLM Extractor, an exception of it read as None
TryGenai ==
    /\ pc = "genai"
    /\ \E b \in (IF GenaiAvailable(genai, environ) THEN Behaviours ELSE {None}) :
          /\ collaborator' = b
          /\ llm' = genai_extract_biomarkers(genai, environ, b, text)
    /\ biomarkers' = (IF llm'.k = "list" THEN List(llm'.v) ELSE None)
    /\ calls' = [calls EXCEPT !.genai = @ + 1,
                              !.configure = @ + llm'.configure,
                              !.chat = @ + llm'.chat,
                              !.generate_text = @ + llm'.generate_text]
    /\ pc' = "fallback"
    /\ UNCHANGED <<file_path, genai, environ, text, risk_assessment, result,
                   reference>>

\* Fallback with `if not biomarkers`: an empty list falls back as well
FallbackWhenEmpty ==
    /\ pc = "fallback"
    /\ IF biomarkers = None \/ biomarkers = List(<<>>)
       THEN /\ biomarkers' = List(extract_biomarkers_from_text(text))
            /\ calls' = [calls EXCEPT !.pattern = @ + 1]
       ELSE UNCHANGED <<biomarkers, calls>>
    /\ pc' = "score"
    /\ UNCHANGED <<file_path, genai, environ, collaborator, text, llm,
                   risk_assessment, result, reference>>

\* lines 288-289: the Pattern Extractor, only when there is no list yet
Fallback ==
    /\ pc = "fallback"
    /\ IF biomarkers = None
       THEN /\ biomarkers' = List(extract_biomarkers_from_text(text))
            /\ calls' = [calls EXCEPT !.pattern = @ + 1]
       ELSE UNCHANGED <<biomarkers, calls>>
    /\ pc' = "score"
    /\ UNCHANGED <<file_path, genai, environ, collaborator, text, llm,
                   risk_assessment, result, reference>>

\* lines 292-298: the Risk Scorer and the success result; an exception of
\* the scorer leaves analyze_report
Score ==
    /\ pc = "score"
    /\ risk_assessment' = assess_biomarker_risk(biomarkers.v)
    /\ result' = IF risk_assessment'.k = "raise" THEN Raise(risk_assessment'.exc)
                 ELSE [k |-> "success", success |-> TRUE,
                       biomarkers |-> biomarkers,
                       risk_assessment |-> [risk |-> risk_assessment'.risk,
                                            score |-> risk_assessment'.score]]
    /\ calls' = [calls EXCEPT !.risk = @ + 1]
    /\ pc' = "done"
    /\ UNCHANGED <<file_path, genai, environ, collaborator, text, llm,
                   biomarkers, reference>>

Next == ExtractText \/ TryGenai \/ Fallback \/ Score

Spec == Init /\ [][Next]_vars

(***************************************************************************)
(* Properties.                                                             *)
(***************************************************************************)
\* the entry {name: key, value: v}
Entry(key, v) == [name |-> Str(key), value |-> v]

\* whether a sequence holds x
Holds(seq, x) == \E i \in 1..Len(seq) : seq[i] = x

\* the number of entries whose name is a Registry key and whose value lies
\* strictly outside that key's range
OutOfRange(bs) ==
    Cardinality({i \in 1..Len(bs) :
        /\ bs[i].name.t = "str"
        /\ \E d \in 1..Len(BIOMARKER_RANGES) :
              /\ BIOMARKER_RANGES[d].key = bs[i].name.s
              /\ \/ bs[i].value < BIOMARKER_RANGES[d].min
                 \/ bs[i].value > BIOMARKER_RANGES[d].max})

\* the table of section 4.5
RiskTable(bs) ==
    IF Len(bs) = 0 THEN [k |-> "ok", risk |-> "low", score |-> 0]
    ELSE IF OutOfRange(bs) = 0 THEN [k |-> "ok", risk |-> "low", score |-> 10]
    ELSE IF OutOfRange(bs) = 1 THEN [k |-> "ok", risk |-> "moderate", score |-> 45]
    ELSE IF OutOfRange(bs) \in {2, 3} THEN [k |-> "ok", risk |-> "moderate", score |-> 55]
    ELSE [k |-> "ok", risk |-> "high", score |-> 75]

\* C1: for every biomarker list (names: strings or none), the Risk Scorer
\* returns exactly the table's row for it: {low,0} for the empty list, else
\* by the number of entries named by a Registry key with a value strictly
\* below min or above max: {low,10} for 0, {moderate,45} for 1,
\* {moderate,55} for 2 or 3, {high,75} for 4 or more.
C1_RiskTable ==
    pc = "returned" => risk_assessment = RiskTable(biomarkers.v)

\* a list with entries at a bound and with a name that is no key, scored 55
C1_Witness ==
    /\ pc = "returned"
    /\ OutOfRange(biomarkers.v) = 2
    /\ Holds(biomarkers.v, Entry(<<"T","S","H">>, 40))
    /\ Holds(biomarkers.v, Entry(<<"t","s","h">>, 1))
    /\ risk_assessment.score = 55

\* C10: of two lists with out-of-range counts a1 < a2, both at least 1, the
\* one with a2 scores at least as much; every score is an integer in 0..100
\* and every risk is low, moderate or high.
C10_Monotone ==
    pc = "returned" =>
      LET a == OutOfRange(biomarkers.v)
          b == OutOfRange(reference.biomarkers)
          ra == risk_assessment
          rb == reference.risk_assessment
      IN  /\ ra.k = "ok" /\ rb.k = "ok"
          /\ ra.score \in 0..100 /\ rb.score \in 0..100
          /\ ra.risk \in {"low", "moderate", "high"}
          /\ rb.risk \in {"low", "moderate", "high"}
          /\ (1 <= a /\ a < b) => ra.score <= rb.score
          /\ (1 <= b /\ b < a) => rb.score <= ra.score

\* counts 1 and 3, scores 45 and 55
C10_Witness ==
    /\ pc = "returned"
    /\ OutOfRange(biomarkers.v) = 1 /\ OutOfRange(reference.biomarkers) = 3
    /\ risk_assessment.score = 45 /\ reference.risk_assessment.score = 55

\* the place of a key in the Registry's iteration order
RegistryIndex(key) ==
    CHOOSE d \in 1..Len(BIOMARKER_RANGES) : BIOMARKER_RANGES[d].key = key

\* whether the text holds the string at index i, case ignored
OccursAt(t, i, name) ==
    /\ i >= 1 /\ i + Len(name) - 1 <= Len(t)
    /\ SameLower(SubSeq(t, i, i + Len(name) - 1), name)

\* whether the text holds the alias with a digit after it, or with a digit
\* at most Window2 characters before it
NearNumber(t, alias) ==
    \E i \in 1..Len(t) :
       /\ OccursAt(t, i, alias)
       /\ \E q \in 1..Len(t) :
             /\ IsDigit(t[q])
             /\ \/ q >= i + Len(alias)
                \/ q < i /\ i - q <= Window2 + 1

\* C8: the Pattern Extractor's list holds only Registry keys as names, at
\* most one entry per definition, in the Registry's iteration order; a
\* definition none of whose aliases stands near a number in the text has no
\* entry; no text (None) and the empty text give the empty list.
C8_OnePerDefinition ==
    pc = "returned" =>
      LET bs == biomarkers.v
      IN  /\ \A i \in 1..Len(bs) :
                bs[i].name.t = "str" /\ bs[i].name.s \in RegistryKeys
          /\ \A i, j \in 1..Len(bs) :
                i < j => RegistryIndex(bs[i].name.s) < RegistryIndex(bs[j].name.s)
          /\ \A i \in 1..Len(bs) :
                LET names == BIOMARKER_RANGES[RegistryIndex(bs[i].name.s)].names
                IN  \E j \in 1..Len(names) : NearNumber(text.s, names[j])
          /\ (text = None \/ text.s = <<>>) => bs = <<>>

\* two definitions found, each once, though two aliases of T3 match; TSH,
\* absent from the text, has no entry
C8_Witness ==
    /\ pc = "returned"
    /\ text = Str(<<"T","3","3",",","1","N","F","L">>)
    /\ biomarkers.v = <<Entry(<<"T","3">>, 310), Entry(<<"N","F","L">>, 3310)>>

\* the numeral as section 4.2 reads it: blanks and a leading < or > dropped,
\* the comma a decimal point; in 1/Scale units
NumeralValue(raw) ==
    LET ds == SelectSeq(raw, LAMBDA c : IsDigit(c) \/ IsPoint(c))
        pt == IF \E k \in 1..Len(ds) : IsPoint(ds[k])
              THEN CHOOSE k \in 1..Len(ds) :
                      IsPoint(ds[k]) /\ \A m \in 1..(k - 1) : ~IsPoint(ds[m])
              ELSE Len(ds) + 1
        whole == SubSeq(ds, 1, pt - 1)
        cents == SubSeq(ds \o <<"0", "0", "0">>, pt + 1, pt + 2)
    IN  DigitsVal(whole) * Scale + DigitsVal(cents)

\* whether the text holds the string
Contains(t, sub) ==
    \E i \in 1..Len(t) :
       i + Len(sub) - 1 <= Len(t) /\ SubSeq(t, i, i + Len(sub) - 1) = sub

\* whether the first occurrence of the alias in the text (case ignored) is
\* followed by `rest`, and `rest` by neither a digit nor a point and a digit
FirstThen(t, alias, rest) ==
    /\ \E i \in 1..Len(t) : OccursAt(t, i, alias)
    /\ LET i == Least({k \in 1..Len(t) : OccursAt(t, k, alias)})
           e == i + Len(alias) + Len(rest)
       IN  /\ e - 1 <= Len(t)
           /\ SubSeq(t, i + Len(alias), e - 1) = rest
           /\ ~IsDigit(At(t, e))
           /\ ~(IsPoint(At(t, e)) /\ IsDigit(At(t, e + 1)))

CommaText == Str(<<"T","3",":"," ","3",",","1">>)

\* C2: once the text is there and both extraction steps are over, the
\* biomarker value is a list: the LLM Extractor's list whenever it returned
\* one (the empty list too), and then the Pattern Extractor has not run;
\* the Pattern Extractor's list for the same text otherwise, and then it
\* has run exactly once.  The Risk Scorer is given that list, and a success
\* result carries it.
C2_OneStrategy ==
    (calls.genai = 1 /\ pc \in {"score", "done"}) =>
      /\ biomarkers.t = "list"
      /\ llm.k = "list" => (biomarkers.v = llm.v /\ calls.pattern = 0)
      /\ llm.k # "list" =>
            /\ biomarkers.v = extract_biomarkers_from_text(text)
            /\ calls.pattern = 1
      /\ pc = "done" =>
            /\ risk_assessment = assess_biomarker_risk(biomarkers.v)
            /\ result.k = "success" =>
                  (result.biomarkers = biomarkers /\ result.biomarkers.t = "list")

\* the LLM Extractor returned the empty list for a text the Pattern
\* Extractor finds T3 in: the result carries the empty list
C2_Witness ==
    /\ pc = "done"
    /\ text = CommaText
    /\ llm.k = "list" /\ llm.v = <<>>
    /\ calls.pattern = 0
    /\ result.k = "success" /\ result.biomarkers = List(<<>>)

\* no client module, or neither key set to a non-empty value
Unavailable ==
    \/ ~genai
    \/ /\ environ.GOOGLE_API_KEY \in {None, Str(<<>>)}
       /\ environ.GENAI_API_KEY \in {None, Str(<<>>)}

\* C3: when the LLM Extractor is unavailable, its call returns null, no
\* operation of the collaborator (configure, chat, generate_text) is
\* invoked, and the biomarker list of the request and of its result is the
\* Pattern Extractor's list for the same text.
C3_Unavailable ==
    (calls.genai = 1 /\ Unavailable) =>
      /\ llm.k = "null"
      /\ collaborator = None
      /\ calls.configure = 0 /\ calls.chat = 0 /\ calls.generate_text = 0
      /\ pc \in {"score", "done"} =>
            biomarkers = List(extract_biomarkers_from_text(text))
      /\ pc = "done" =>
            /\ result.k = "success"
            /\ result.biomarkers = List(extract_biomarkers_from_text(text))

\* the module is there and GOOGLE_API_KEY is set, but to the empty string
C3_Witness ==
    /\ pc = "done"
    /\ genai
    /\ environ.GOOGLE_API_KEY = Str(<<>>) /\ environ.GENAI_API_KEY = None
    /\ text = CommaText
    /\ result.k = "success"
    /\ result.biomarkers = List(<<Entry(<<"T","3">>, 310)>>)

\* C4: whatever the collaborator does, the LLM Extractor's call ends in a
\* null result or in a list of entries (name, value, unit), never in an
\* exception.
C4_NeverRaises ==
    calls.genai = 1 =>
      /\ llm.k \in {"null", "list"}
      /\ llm.k = "list" =>
            \A i \in 1..Len(llm.v) :
               /\ DOMAIN llm.v[i] = {"name", "value", "unit"}
               /\ llm.v[i].value \in Int

\* a response whose only item has the number 5 as its name
C4_Witness ==
    /\ calls.genai = 1
    /\ collaborator # None
    /\ collaborator.chat = Missing
    /\ collaborator.generate_text =
         ArrayContent(<<Obj(Num(5), Absent, Num(100), Absent)>>)
    /\ calls.generate_text = 1
    /\ llm.k = "null"

\* C5 as stated: a path whose extension is not one of the five gets the
\* unsupported-type error naming that extension, and nothing is invoked.
C5_NotOneOfTheFive ==
    (pc = "done" /\ file_path \notin Supported) =>
      /\ result = Error("Unsupported file type: ", file_path)
      /\ calls = NoCalls

\* C5, amended: the extension is compared in lower case.  A path whose
\* lower-cased extension is not one of the five gets the unsupported-type
\* error naming the lower-cased extension, and nothing is invoked; any
\* other path has its text-extraction collaborator invoked.
C5_LowerCased ==
    pc = "done" =>
      IF Lower(file_path) \notin Supported
      THEN /\ result = Error("Unsupported file type: ", Lower(file_path))
           /\ calls = NoCalls
      ELSE /\ ~(result.k = "error" /\ result.error = "Unsupported file type: ")
           /\ calls.extract_text_from_pdf + calls.extract_text_from_image
                + calls.parse_csv = 1

\* the extension .TXT: the message names .txt
C5_Witness ==
    /\ pc = "done"
    /\ file_path = <<".","T","X","T">>
    /\ result = Error("Unsupported file type: ", <<".","t","x","t">>)
    /\ calls = NoCalls

\* C6: for a supported type, a null text gives the extraction-failure
\* error and no extractor and no scorer has run; any other text gives a
\* success result.
C6_NullOrSuccess ==
    (pc = "done" /\ Lower(file_path) \in Supported) =>
      IF text = None
      THEN /\ result = Error("Failed to extract text from file", <<>>)
           /\ calls.genai = 0 /\ calls.pattern = 0 /\ calls.risk = 0
      ELSE result.k = "success"

\* C7: a request ends in a success result or in one of the two error
\* results, never in an exception.
C7_NoEscape ==
    pc = "done" => result.k \in {"success", "error"}

\* the content the LLM Extractor reads in this request: the chat
\* interface's when it gave one, generate_text's otherwise
ContentRead ==
    IF collaborator.chat \notin {Missing, Raises} THEN collaborator.chat
    ELSE collaborator.generate_text

\* whether the collaborator was called and gave a content with text in it
HasContent ==
    /\ calls.genai = 1
    /\ collaborator # None
    /\ ContentRead \notin {Raises, None}

\* the entry the LLM Extractor makes of ItemTSH
EntryTSH == [name |-> Str(<<"T","S","H">>), value |-> 39, unit |-> None]

\* C11 as stated: the array substring is tried first; when none is found or
\* the one found is not valid JSON, the entire response is parsed; null
\* comes out of the parsing only when both attempts fail.
C11_BothAttempts ==
    HasContent =>
      /\ ContentRead.match # NoMatch => Head(llm.loads) = "match"
      /\ ContentRead.match \in {NoMatch, BadJson} =>
            llm.loads[Len(llm.loads)] = "whole"

\* C11, amended: when an array substring is found, it alone is parsed, and
\* null is returned if it is not valid JSON; the entire response is parsed
\* only when no substring is found, and null is returned if that is not
\* valid JSON.  A substring or a response that parses to objects with a
\* name and a number gives their entries; the response {} gives the empty
\* list.
C11_SubstringElseWhole ==
    HasContent =>
      /\ ContentRead.match # NoMatch =>
            /\ llm.loads = <<"match">>
            /\ ContentRead.match = BadJson => llm.k = "null"
            /\ ContentRead.match = List(<<ItemTSH>>) =>
                  (llm.k = "list" /\ llm.v = <<EntryTSH>>)
      /\ ContentRead.match = NoMatch =>
            /\ llm.loads = <<"whole">>
            /\ ContentRead.whole = BadJson => llm.k = "null"
            /\ ContentRead.whole = Obj(Absent, Absent, Absent, Absent) =>
                  (llm.k = "list" /\ llm.v = <<>>)

\* an array of arrays: the substring found is not valid JSON, the entire
\* response is, and it is not parsed
C11_Witness ==
    /\ HasContent
    /\ ContentRead.match = BadJson
    /\ ContentRead.whole # BadJson
    /\ llm.loads = <<"match">>
    /\ llm.k = "null"

\* C12: within one request the model collaborator is invoked at most once
\* (chat and generate_text together), and when the interface invoked first
\* fails, the LLM Extractor's result is null and the Pattern Extractor
\* supplies the list.
C12_AtMostOnce ==
    /\ calls.genai <= 1
    /\ calls.chat + calls.generate_text <= 1
    /\ (calls.genai = 1 /\ collaborator # None /\ collaborator.chat = Raises) =>
          /\ llm.k = "null"
          /\ pc \in {"score", "done"} => calls.pattern = 1

\* the value json.loads gave for the response read
ParsedValue ==
    IF ContentRead.match = NoMatch THEN ContentRead.whole ELSE ContentRead.match

\* the response parsed to an array
ParsedArray == HasContent /\ ParsedValue.t = "list"

\* the response parsed to an array of objects
ParsedObjects ==
    ParsedArray /\ \A i \in 1..Len(ParsedValue.v) : ParsedValue.v[i].t = "dict"

\* digits, with at most one decimal part after a point or a comma
IsNumeral(s) ==
    /\ s # <<>>
    /\ \A i \in 1..Len(s) : IsDigit(s[i]) \/ IsPoint(s[i])
    /\ IsDigit(s[1]) /\ IsDigit(s[Len(s)])
    /\ Cardinality({i \in 1..Len(s) : IsPoint(s[i])}) <= 1

\* whether a JSON value can be coerced to a number: a number, or a string
\* that is a numeral
Coercible(val) == val.t = "num" \/ (val.t = "str" /\ IsNumeral(val.s))

\* the number it is coerced to, in 1/Scale units
NumberOf(val) == IF val.t = "num" THEN val.v ELSE NumeralValue(val.s)

\* the object's name: its "name", or its "biomarker" when "name" is missing
\* or empty
NameOf(item) ==
    IF Truthy(Get(item.name)) THEN Get(item.name) ELSE Get(item.biomarker)

\* the canonical key whose key or one of whose aliases equals the name with
\* case ignored; the name itself when there is none
Canonical(name) ==
    LET Matches(d) ==
            \/ Lower(name.s) = Lower(BIOMARKER_RANGES[d].key)
            \/ \E j \in 1..Len(BIOMARKER_RANGES[d].names) :
                  Lower(name.s) = Lower(BIOMARKER_RANGES[d].names[j])
    IN  IF name.t = "str" /\ \E d \in 1..Len(BIOMARKER_RANGES) : Matches(d)
        THEN Str(BIOMARKER_RANGES[Least({d \in 1..Len(BIOMARKER_RANGES) : Matches(d)})].key)
        ELSE name

\* one entry, in order, for each object whose value can be coerced
RECURSIVE ExpectedEntries(_)
ExpectedEntries(items) ==
    IF items = <<>> THEN <<>>
    ELSE (IF Coercible(Get(Head(items).value))
          THEN << [name |-> Canonical(NameOf(Head(items))),
                   value |-> NumberOf(Get(Head(items).value)),
                   unit |-> Get(Head(items).unit)] >>
          ELSE <<>>)
         \o ExpectedEntries(Tail(items))

\* C13 as stated: for a response parsed to an array of objects, the list
\* returned holds, in response order, one entry for each object whose value
\* can be coerced and none for the others; the entry's name is the
\* canonical key matching the object's name with case ignored, the raw name
\* when none matches.
C13_EveryCoercible ==
    ParsedObjects =>
      /\ llm.k = "list"
      /\ llm.v = ExpectedEntries(ParsedValue.v)

\* whether every item is an object, and every object whose value can be
\* coerced has a name that is a string, or missing or empty
StringNames(items) ==
    \A i \in 1..Len(items) :
       /\ items[i].t = "dict"
       /\ Coercible(Get(items[i].value)) =>
             (~Truthy(NameOf(items[i])) \/ NameOf(items[i]).t = "str")

\* C13, amended: for a response parsed to an array, if every item is an
\* object and every object whose value can be coerced has a name that is a
\* string (or no name), the list returned is as C13 states, the name being
\* read from "name" or else from "biomarker"; otherwise the result is null.
C13_StringNames ==
    ParsedArray =>
      IF StringNames(ParsedValue.v)
      THEN llm.k = "list" /\ llm.v = ExpectedEntries(ParsedValue.v)
      ELSE llm.k = "null"

\* "Thyroxine" with the value "0,5", then T3 with the value "high": one
\* entry, named T4, with the value 0.5
C13_Witness ==
    /\ ParsedObjects
    /\ Len(ParsedValue.v) = 2
    /\ ParsedValue.v[1].biomarker = Str(<<"T","h","y","r","o","x","i","n","e">>)
    /\ ParsedValue.v[2].value = Str(<<"h","i","g","h">>)
    /\ llm.k = "list"
    /\ llm.v = << [name |-> Str(<<"T","4">>), value |-> 50,
                  unit |-> Str(<<"n","g","/","d","L">>)] >>

\* what attempt k on a definition's aliases yields: attempts 1 and 2 are the
\* name-then-number and the number-then-name pattern of the first alias,
\* 3 and 4 those of the second, and so on
AttemptYield(t, nm, names, k) ==
    LET alias == names[(k + 1) \div 2]
    IN  IF Occurrences(t, alias) = {} THEN None
        ELSE IF k % 2 = 1
        THEN Pattern1Search(t, nm, Occurrences(t, alias), alias)
        ELSE Pattern2Search(t, nm, Occurrences(t, alias), alias)

\* the recorded value comes from the first attempt, in that order, that
\* yields a numeral; a definition no attempt yields a numeral for has no
\* entry
FirstAttempt(t, nm, bs) ==
    \A d \in 1..Len(BIOMARKER_RANGES) :
       LET names == BIOMARKER_RANGES[d].names
           yields == {k \in 1..(2 * Len(names)) : AttemptYield(t, nm, names, k) # None}
           entries == {i \in 1..Len(bs) : bs[i].name = Str(BIOMARKER_RANGES[d].key)}
       IN  IF yields = {} THEN entries = {}
           ELSE /\ Cardinality(entries) = 1
                /\ \A i \in entries :
                      bs[i].value =
                        NumeralValue(AttemptYield(t, nm, names, Least(yields)).s)

\* a number token as section 4.2 gives its shape: digits, or < or > and
\* digits
TokenAt(t, q) == IsDigit(At(t, q)) \/ (IsSign(At(t, q)) /\ IsDigit(At(t, q + 1)))

\* a number token as the code captures it: an optional < or >, any run of
\* blanks, digits
BlankTokenAt(t, q) ==
    \E k \in q..Len(t) :
       /\ IsDigit(t[k])
       /\ \A x \in q..(k - 1) : IsSpace(t[x]) \/ (x = q /\ IsSign(t[x]))

\* whether, for every entry, an alias of its definition has a token
\* starting at most 60 characters after it, or a digit ending a number at
\* most 20 characters before it
InWindow(t, bs, Token(_, _)) ==
    \A e \in 1..Len(bs) :
       LET names == BIOMARKER_RANGES[RegistryIndex(bs[e].name.s)].names
       IN  \E j \in 1..Len(names), i \in 1..Len(t) :
              /\ OccursAt(t, i, names[j])
              /\ \/ \E q \in (i + Len(names[j]))..(i + Len(names[j]) + 60) :
                       Token(t, q)
                 \/ \E q \in (i - 21)..(i - 1) : IsDigit(At(t, q))

AliasT3 == <<"T","3">>

LaterAlias ==
    <<"x","t","r","i","i","o","d","o","t","h","y","r","o","n","i","n","e"," ","4">>

=============================================================================
